---- MODULE Spec2Model ----
(***************************************************************************)
(* DirectionComputationCuttingPlane::computeDirection of NonOpt, as a      *)
(* state machine.  One behaviour is one invocation of computeDirection on  *)
(* a Quantities object left by earlier outer iterations.  The objective    *)
(* oracle, the QP solver, the termination strategy and the clock are the   *)
(* environment: every value they hand back is drawn from a bounded set.    *)
(*                                                                         *)
(* Real numbers (double) are fixed-point integers with Scale units per     *)
(* 1.0, together with one NaN value; the problem has one variable, so a    *)
(* Vector is one such number.                                              *)
(***************************************************************************)
EXTENDS Integers, Sequences, FiniteSets, TLC

(***************************************************************************)
(* Bounds of the model.                                                    *)
(***************************************************************************)
MaxInnerIterationLimit == 1

MaxPasses == 2

NumberOfQPIterations == 2

(***************************************************************************)
(* double arithmetic.                                                      *)
(***************************************************************************)
Scale == 4

One == Scale

Half == Scale \div 2

Quarter == Scale \div 4

NaN == 0 - (Scale * Scale * Scale * Scale)

FNeg(a) == IF a = NaN THEN NaN ELSE 0 - a

FAdd(a, b) == IF a = NaN \/ b = NaN THEN NaN ELSE a + b

FSub(a, b) == IF a = NaN \/ b = NaN THEN NaN ELSE a - b

FMul(a, b) == IF a = NaN \/ b = NaN THEN NaN ELSE (a * b) \div Scale

\* 0.0 / 0.0 is NaN.  A nonzero numerator over 0.0 (an infinity) does not
\* arise: the only division of computeDirection has a numerator that is a
\* multiple of min(radius, ||d||_inf), which is 0.0 when the denominator is.
FDiv(a, b) == IF a = NaN \/ b = NaN \/ b = 0 THEN NaN ELSE (a * Scale) \div b

\* Every comparison with a NaN operand is false.
FLess(a, b) == a # NaN /\ b # NaN /\ a < b

FLeq(a, b) == a # NaN /\ b # NaN /\ a <= b

\* fmin and fmax return the other operand when one is NaN.
Fmin(a, b) == IF a = NaN THEN b ELSE IF b = NaN THEN a ELSE IF a < b THEN a ELSE b

Fmax(a, b) == IF a = NaN THEN b ELSE IF b = NaN THEN a ELSE IF a > b THEN a ELSE b

\* Vector::normInf and the square of Vector::norm2, for one variable.
NormInf(v) == IF v = NaN THEN NaN ELSE IF v < 0 THEN 0 - v ELSE v

Norm2Squared(v) == FMul(v, v)

\* Vector::innerProduct, for one variable.
InnerProduct(u, v) == FMul(u, v)

\* makeNewLinearCombination(a, b, v) on x: a*x + b*v.
MakeNewLinearCombination(x, a, b, v) == FAdd(FMul(a, x), FMul(b, v))

numberOfVariables == 1

(***************************************************************************)
(* Enumerations.                                                           *)
(***************************************************************************)
DC_Status ==
  {"DC_UNSET", "DC_SUCCESS", "DC_CPU_TIME_LIMIT", "DC_EVALUATION_FAILURE",
   "DC_ITERATION_LIMIT", "DC_QP_FAILURE"}

QP_Status == {"QP_SUCCESS", "QP_FAILURE"}

DC_Exceptions ==
  {"DC_SUCCESS_EXCEPTION", "DC_CPU_TIME_LIMIT_EXCEPTION",
   "DC_EVALUATION_FAILURE_EXCEPTION", "DC_ITERATION_LIMIT_EXCEPTION",
   "DC_QP_FAILURE_EXCEPTION"}

(***************************************************************************)
(* Option values (setOptions).  The real-valued options are fixed at       *)
(* representable values of their admissible ranges.                        *)
(***************************************************************************)
gradient_stepsize_ == Half

shortened_stepsize_ == Half

step_acceptance_tolerance_ == Quarter

downshift_constant_ == Quarter

AggregationSizeThresholds == {One + Half}

OptionValues ==
  [add_far_points_ : BOOLEAN,
   fail_on_iteration_limit_ : BOOLEAN,
   fail_on_QP_failure_ : BOOLEAN,
   try_aggregation_ : BOOLEAN,
   try_gradient_step_ : BOOLEAN,
   try_shortened_step_ : BOOLEAN,
   aggregation_size_threshold_ : AggregationSizeThresholds,
   inner_iteration_limit_ : 0 .. MaxInnerIterationLimit]

(***************************************************************************)
(* The environment's value sets.                                           *)
(***************************************************************************)
\* Primal solutions d of the QP solver: zero, inside and outside the
\* stationarity radius.
PrimalValues == {0, 0 - One, 0 - (2 * One)}

\* What a solve reports: a solution, or a failure that leaves the longest
\* step in the solver.  Every solve takes NumberOfQPIterations iterations.
QPOutcomes ==
  [status : {"QP_SUCCESS"}, primal : PrimalValues, iterations : {NumberOfQPIterations}]
    \cup [status : {"QP_FAILURE"}, primal : {0 - (2 * One)},
          iterations : {NumberOfQPIterations}]

\* Point sets left by earlier outer iterations.
InitialPointSets == {<< >>, <<0, 0 - One, Half>>}

\* What an earlier invocation left in the strategy and in Quantities.
PreviousCalls ==
  {[status |-> "DC_UNSET", direction |-> 0, inner |-> 0, qp |-> 0],
   [status |-> "DC_SUCCESS", direction |-> 0 - One, inner |-> 1, qp |-> 1]}

VARIABLES
  pc,                           \* position in computeDirection
  status_,                      \* Strategy status (setStatus)
  raised,                       \* NONOPT_CPU_TIME_LIMIT_EXCEPTION left the call
  opt,                          \* option members
  evaluateFunctionWithGradient, \* Quantities flag
  currentIterate,               \* Quantities: x_k
  trialIterate,                 \* Quantities: trial point
  direction,                    \* Quantities: direction
  pointSet,                     \* Quantities: point set
  stationarityRadius,           \* Quantities: stationarity radius
  innerIterationCounter,        \* Quantities counter
  QPIterationCounter,           \* Quantities counter
  totals,                       \* calls of the three increment... methods
  qp,                           \* QP solver state
  QP_gradient_list,             \* local G
  QP_vector,                    \* local b
  QP_gradient_list_aggregated,  \* local G_agg
  QP_vector_aggregated,         \* local b_agg
  QP_gradient_list_new,         \* local G_new
  QP_vector_new,                \* local b_new
  switched_to_full,             \* local flag
  evaluation_success,           \* local flag
  summaryLines,                 \* R_PER_ITERATION lines printed by this call
  log                           \* history of this call (observation only)

vars ==
  <<pc, status_, raised, opt, evaluateFunctionWithGradient,
    currentIterate, trialIterate, direction, pointSet, stationarityRadius,
    innerIterationCounter, QPIterationCounter, totals, qp, QP_gradient_list,
    QP_vector, QP_gradient_list_aggregated, QP_vector_aggregated,
    QP_gradient_list_new, QP_vector_new, switched_to_full, evaluation_success,
    summaryLines, log>>

\* Variables no step of computeDirection writes.
inputs == <<opt, evaluateFunctionWithGradient, currentIterate, stationarityRadius>>

bundle == <<QP_gradient_list, QP_vector>>

aggregated == <<QP_gradient_list_aggregated, QP_vector_aggregated>>

newData == <<QP_gradient_list_new, QP_vector_new>>

counters == <<innerIterationCounter, QPIterationCounter>>

(***************************************************************************)
(* The oracle: objective and (sub)gradient of an Iterate.  The objective   *)
(* is |x| for x > -1 and x + 2 for x <= -1: nonsmooth at 0, and nonconvex  *)
(* at -1, where a linearization overestimates the objective at x_k = 1.    *)
(***************************************************************************)
Objective(x) ==
  IF x = NaN THEN NaN
  ELSE IF x <= 0 - One THEN x + 2 * One
  ELSE NormInf(x)

Gradient(x) ==
  IF x = NaN THEN NaN
  ELSE IF x <= 0 - One THEN One
  ELSE IF x < 0 THEN 0 - One
  ELSE One

(***************************************************************************)
(* The history of the call, kept for observation only:                     *)
(*   solves          QP solves so far                                      *)
(*   failed          kinds of the solves that reported a non-success       *)
(*   exit            the step that threw the exception ending the call     *)
(*   op              the step taken last                                   *)
(*   probe           the acceptance test of the step taken last, if any    *)
(*   entryDirection  quantities.direction on entry                         *)
(*   answer          what the oracle, the QP solver and the termination    *)
(*                   strategy answered in the step taken last              *)
(*   clock           what the clock answered in the step taken last        *)
(*   passes          complete passes of the inner loop so far              *)
(***************************************************************************)
NoOutcome == [status |-> "none", primal |-> 0, iterations |-> 0]

NoAnswer ==
  [o |-> NoOutcome, evaluated |-> FALSE, okGradient |-> FALSE, radii |-> FALSE,
   ok |-> << >>, omega |-> << >>]

NoProbe == [at |-> "none", evaluated |-> FALSE, decrease |-> FALSE, radii |-> FALSE]

Probes == {"gradientStep", "innerProbe", "shortenedStep"}

(***************************************************************************)
(* Initial state: the arguments of one invocation.                         *)
(***************************************************************************)
InitOf(Options) ==
  /\ pc = "entry"
  /\ raised = FALSE
  /\ opt \in Options
  /\ evaluateFunctionWithGradient \in BOOLEAN
  /\ currentIterate = One
  /\ stationarityRadius = One
  /\ pointSet \in InitialPointSets
  /\ \E prev \in PreviousCalls :
       /\ status_ = prev.status
       /\ direction = prev.direction
       /\ trialIterate = FAdd(currentIterate, prev.direction)
       /\ innerIterationCounter = prev.inner
       /\ QPIterationCounter = prev.qp
       /\ qp = [scalarSet |-> FALSE, dataSet |-> FALSE, vectorList |-> << >>,
                vector |-> << >>, status |-> "QP_SUCCESS",
                primalSolution |-> prev.direction, numberOfIterations |-> prev.qp]
  /\ totals = [inner |-> 0, qp |-> 0, time |-> 0]
  /\ QP_gradient_list = << >>
  /\ QP_vector = << >>
  /\ QP_gradient_list_aggregated = << >>
  /\ QP_vector_aggregated = << >>
  /\ QP_gradient_list_new = << >>
  /\ QP_vector_new = << >>
  /\ switched_to_full = FALSE
  /\ evaluation_success = FALSE
  /\ summaryLines = 0
  /\ log = [solves |-> 0, failed |-> {}, exit |-> "none", probe |-> NoProbe,
            op |-> "none", entryDirection |-> direction, answer |-> NoAnswer,
            clock |-> "none", passes |-> 0]

Init == InitOf(OptionValues)

(***************************************************************************)
(* QP solver (environment; the calls are those computeDirection makes).    *)
(***************************************************************************)
\* Faulty variant: the linear term vector is not handed over.
SetData_listOnly(q, G, b) == [q EXCEPT !.dataSet = TRUE, !.vectorList = G]

\* setVectorList(G); setVector(b)
SetData(q, G, b) == [q EXCEPT !.dataSet = TRUE, !.vectorList = G, !.vector = b]

\* addData(G_new, b_new)
AddData(q, G, b) == [q EXCEPT !.vectorList = @ \o G, !.vector = @ \o b]

\* solveQP / solveQPHot with outcome o
Solve(q, o) ==
  [q EXCEPT !.status = o.status, !.primalSolution = o.primal,
            !.numberOfIterations = o.iterations]

primalSolutionNormInf(q) == NormInf(q.primalSolution)

primalSolutionNorm2Squared(q) == Norm2Squared(q.primalSolution)

\* The solver works with the identity as approximate Hessian: the dual
\* quadratic value and the translated combination norm equal ||d||_2^2.
dualObjectiveQuadraticValue(q) == Norm2Squared(q.primalSolution)

combinationTranslatedNorm2Squared(q) == Norm2Squared(q.primalSolution)

dualSolutionOmegaLength(q) == Len(q.vectorList)

(***************************************************************************)
(* Pieces of computeDirection.                                             *)
(***************************************************************************)
\* Faulty variant: the solver's primal solution is left as it was.
setPrimalSolutionToZero_noop(q) == q

\* setPrimalSolutionToZero()
setPrimalSolutionToZero(q) == [q EXCEPT !.primalSolution = 0]

\* Faulty variant: the check after the gradient evaluation is missing.
EvaluationFailed_objectiveOnly(okObjective, okGradient) == ~okObjective

\* The checks after the evaluations at the current iterate: whether
\* DC_EVALUATION_FAILURE_EXCEPTION is thrown.
EvaluationFailed(okObjective, okGradient) == ~okObjective \/ ~okGradient

\* Faulty variant: the catch clause of the iteration limit sets no status.
StatusOf_iterationLimitUnset(e) ==
  CASE e = "DC_SUCCESS_EXCEPTION" -> "DC_SUCCESS"
    [] e = "DC_CPU_TIME_LIMIT_EXCEPTION" -> "DC_CPU_TIME_LIMIT"
    [] e = "DC_EVALUATION_FAILURE_EXCEPTION" -> "DC_EVALUATION_FAILURE"
    [] e = "DC_ITERATION_LIMIT_EXCEPTION" -> "DC_UNSET"
    [] e = "DC_QP_FAILURE_EXCEPTION" -> "DC_QP_FAILURE"

\* The catch clauses: the status each exception sets.
StatusOf(e) ==
  CASE e = "DC_SUCCESS_EXCEPTION" -> "DC_SUCCESS"
    [] e = "DC_CPU_TIME_LIMIT_EXCEPTION" -> "DC_CPU_TIME_LIMIT"
    [] e = "DC_EVALUATION_FAILURE_EXCEPTION" -> "DC_EVALUATION_FAILURE"
    [] e = "DC_ITERATION_LIMIT_EXCEPTION" -> "DC_ITERATION_LIMIT"
    [] e = "DC_QP_FAILURE_EXCEPTION" -> "DC_QP_FAILURE"

\* Faulty variant: the CPU time limit is not thrown on.
Rethrows_never(e) == FALSE

\* The catch clauses: only the CPU time limit is thrown on to the caller.
Rethrows(e) == e = "DC_CPU_TIME_LIMIT_EXCEPTION"

\* Faulty variant: the total QP iteration counter is not incremented.
Epilogue_noQPTotal(t, lines) ==
  [totals |-> [inner |-> t.inner + 1, qp |-> t.qp, time |-> t.time + 1],
   summaryLines |-> lines + 1]

\* Faulty variant: the epilogue does not add to the direction computation
\* time.
Epilogue_noTime(t, lines) ==
  [totals |-> [inner |-> t.inner + 1, qp |-> t.qp + 1, time |-> t.time],
   summaryLines |-> lines + 1]

\* What follows the catch clauses that do not rethrow: the iteration line,
\* the total counters and the direction computation time.
Epilogue(t, lines) ==
  [totals |-> [inner |-> t.inner + 1, qp |-> t.qp + 1, time |-> t.time + 1],
   summaryLines |-> lines + 1]

\* THROW_EXCEPTION(e) inside the try block with the totals at t, the catch
\* clause it reaches, and the rest of the call.
Throw(e, t) ==
  /\ status_' = StatusOf(e)
  /\ raised' = Rethrows(e)
  /\ pc' = IF Rethrows(e) THEN "raised" ELSE "returned"
  /\ totals' = IF Rethrows(e) THEN t ELSE Epilogue(t, summaryLines).totals
  /\ summaryLines' = IF Rethrows(e) THEN summaryLines
                     ELSE Epilogue(t, summaryLines).summaryLines

\* The try block goes on at position p.
Continue(p) ==
  /\ pc' = p
  /\ UNCHANGED <<status_, raised, totals, summaryLines>>

\* Faulty variant: the inner iteration counter is not incremented.
convertQPSolutionToStep_noInnerIncrement(q) ==
  [QPIterationCounter |-> QPIterationCounter + q.numberOfIterations,
   innerIterationCounter |-> innerIterationCounter,
   direction |-> q.primalSolution,
   trialIterate |-> MakeNewLinearCombination(currentIterate, One, One, q.primalSolution)]

\* Faulty variant: the QP iteration counter counts solves.
convertQPSolutionToStep_countsSolves(q) ==
  [QPIterationCounter |-> QPIterationCounter + 1,
   innerIterationCounter |-> innerIterationCounter + 1,
   direction |-> q.primalSolution,
   trialIterate |-> MakeNewLinearCombination(currentIterate, One, One, q.primalSolution)]

\* Faulty variant: the primal solution is not copied to the direction.
convertQPSolutionToStep_staleDirection(q) ==
  [QPIterationCounter |-> QPIterationCounter + q.numberOfIterations,
   innerIterationCounter |-> innerIterationCounter + 1,
   direction |-> direction,
   trialIterate |-> MakeNewLinearCombination(currentIterate, One, One, direction)]

\* Faulty variant: the inner iteration counter grows by the solver's
\* iterations.
convertQPSolutionToStep_addsIterations(q) ==
  [QPIterationCounter |-> QPIterationCounter + q.numberOfIterations,
   innerIterationCounter |-> innerIterationCounter + q.numberOfIterations,
   direction |-> q.primalSolution,
   trialIterate |-> MakeNewLinearCombination(currentIterate, One, One, q.primalSolution)]

\* convertQPSolutionToStep: the values it writes, from solver state q.
convertQPSolutionToStep(q) ==
  [QPIterationCounter |-> QPIterationCounter + q.numberOfIterations,
   innerIterationCounter |-> innerIterationCounter + 1,
   direction |-> q.primalSolution,
   trialIterate |-> MakeNewLinearCombination(currentIterate, One, One, q.primalSolution)]

\* The sufficient decrease test of the three probes, for trial point t,
\* stepsize prefactor alpha and solver state q.
SufficientDecrease(t, alpha, q) ==
  FLess(FSub(Objective(t), Objective(currentIterate)),
        FMul(FMul(FNeg(step_acceptance_tolerance_), alpha),
             Fmin(dualObjectiveQuadraticValue(q),
                  Fmax(combinationTranslatedNorm2Squared(q),
                       primalSolutionNorm2Squared(q)))))

\* Faulty variant: the sufficient decrease test is not consulted.
Accepted_radiiOnly(evaluated, decrease, radii) == evaluated /\ radii

\* Faulty variant: the success of the evaluation is not asked for.
Accepted_withoutEvaluation(evaluated, decrease, radii) == decrease \/ radii

\* Faulty variant: the radius update flag is not consulted.
Accepted_decreaseOnly(evaluated, decrease, radii) == evaluated /\ decrease

\* The condition under which a probe throws DC_SUCCESS_EXCEPTION.
Accepted(evaluated, decrease, radii) == evaluated /\ (decrease \/ radii)

\* Faulty variant: the new point is put in front of the point set.
push_back_front(list, e) == <<e>> \o list

\* pointSet()->push_back
push_back(list, e) == Append(list, e)

\* The linear term of the cut of point p: the smaller of the linearization
\* value and the downshifting value.
CutValue(p) ==
  LET difference == MakeNewLinearCombination(currentIterate, One, FNeg(One), p)
      linearization_value ==
        FSub(FAdd(Objective(p), InnerProduct(Gradient(p), currentIterate)),
             InnerProduct(Gradient(p), p))
      downshifting_value ==
        FSub(Objective(currentIterate),
             FMul(downshift_constant_, Norm2Squared(difference)))
  IN  Fmin(linearization_value, downshifting_value)

\* Faulty variant: the distance check of the point set loop is strict.
WithinRadius_strict(p) ==
  FLess(NormInf(MakeNewLinearCombination(currentIterate, One, FNeg(One), p)),
        stationarityRadius)

\* The gate of the loop through the point set.
WithinRadius(p) ==
  FLeq(NormInf(MakeNewLinearCombination(currentIterate, One, FNeg(One), p)),
       stationarityRadius)

\* The loop through the point set: the cuts appended for the points from
\* index i on, where ok[j] says whether the evaluations at point j succeed.
RECURSIVE PointSetGradients(_, _)
PointSetGradients(i, ok) ==
  IF i > Len(pointSet) THEN << >>
  ELSE (IF WithinRadius(pointSet[i]) /\ ok[i]
        THEN <<Gradient(pointSet[i])>> ELSE << >>) \o PointSetGradients(i + 1, ok)

RECURSIVE PointSetValues(_, _)
PointSetValues(i, ok) ==
  IF i > Len(pointSet) THEN << >>
  ELSE (IF WithinRadius(pointSet[i]) /\ ok[i]
        THEN <<CutValue(pointSet[i])>> ELSE << >>) \o PointSetValues(i + 1, ok)

\* Outcomes of an evaluation of the gradient after the objective: a joint
\* oracle has delivered it with the objective.
GradientEvaluations == IF evaluateFunctionWithGradient THEN {TRUE} ELSE BOOLEAN

\* The answers of the oracle at the current iterate: the gradient is asked
\* for alone only after the objective was delivered.
AnswersAtCurrentIterate(okObjective, okGradient) ==
  [NoAnswer EXCEPT !.evaluated = okObjective, !.okGradient = okObjective /\ okGradient]

\* The history with the answers a of the step being taken.
Told(a) == [log EXCEPT !.answer = a, !.clock = "none"]

LogSolve(kind, o) ==
  [Told([NoAnswer EXCEPT !.o = o]) EXCEPT !.solves = @ + 1, !.probe = NoProbe,
              !.failed = IF o.status # "QP_SUCCESS" THEN @ \cup {kind} ELSE @,
              !.op = kind]

(***************************************************************************)
(* Steps of computeDirection.                                              *)
(***************************************************************************)
\* "Initialize values"
InitializeValues ==
  /\ pc = "entry"
  /\ status_' = "DC_UNSET"
  /\ qp' = setPrimalSolutionToZero(qp)
  /\ innerIterationCounter' = 0
  /\ QPIterationCounter' = 0
  /\ trialIterate' = currentIterate
  /\ pc' = "evaluateCurrent"
  /\ log' = [Told(NoAnswer) EXCEPT !.op = "initialize"]
  /\ UNCHANGED <<raised, inputs, direction, pointSet, totals, bundle, aggregated,
                 newData, switched_to_full, evaluation_success, summaryLines>>

\* Evaluation at the current iterate, QP scalars and the one-cut QP data.
EvaluateCurrent ==
  /\ pc = "evaluateCurrent"
  /\ \E okObjective \in BOOLEAN, okGradient \in GradientEvaluations :
       /\ evaluation_success' = (okObjective /\ okGradient)
       /\ IF EvaluationFailed(okObjective, okGradient)
          THEN /\ Throw("DC_EVALUATION_FAILURE_EXCEPTION", totals)
               /\ log' = [Told(AnswersAtCurrentIterate(okObjective, okGradient)) EXCEPT
                            !.exit = "evaluateCurrent", !.op = "evaluateCurrent"]
               /\ UNCHANGED <<qp, bundle>>
          ELSE /\ QP_gradient_list' = <<Gradient(currentIterate)>>
               /\ QP_vector' = <<Objective(currentIterate)>>
               /\ qp' = SetData([qp EXCEPT !.scalarSet = TRUE],
                                QP_gradient_list', QP_vector')
               /\ Continue(IF opt.try_gradient_step_ THEN "gradientStep" ELSE "pointSetLoop")
               /\ log' = [Told(AnswersAtCurrentIterate(okObjective, okGradient)) EXCEPT
                            !.op = "evaluateCurrent"]
  /\ UNCHANGED <<inputs, trialIterate, direction, pointSet, counters, aggregated,
                 newData, switched_to_full>>

\* "Try gradient step?"
GradientStep ==
  /\ pc = "gradientStep"
  /\ \E o \in QPOutcomes, evaluated \in BOOLEAN, radii \in BOOLEAN :
       LET step == convertQPSolutionToStep(Solve(qp, o))
           trial == MakeNewLinearCombination(currentIterate, One,
                                             gradient_stepsize_, step.direction)
           decrease == SufficientDecrease(trial, gradient_stepsize_, Solve(qp, o))
       IN  /\ qp' = Solve(qp, o)
           /\ QPIterationCounter' = step.QPIterationCounter
           /\ innerIterationCounter' = step.innerIterationCounter
           /\ direction' = step.direction
           /\ trialIterate' = trial
           /\ evaluation_success' = evaluated
           /\ IF Accepted(evaluated, decrease, radii)
              THEN /\ Throw("DC_SUCCESS_EXCEPTION", totals)
                   /\ log' = [LogSolve("gradient", o) EXCEPT
                                !.exit = "gradientStep", !.op = "gradientStep",
                                !.answer = [NoAnswer EXCEPT !.o = o, !.evaluated = evaluated,
                                                            !.radii = radii],
                                !.probe = [at |-> "gradientStep", evaluated |-> evaluated,
                                           decrease |-> decrease, radii |-> radii]]
              ELSE /\ Continue("pointSetLoop")
                   /\ log' = [LogSolve("gradient", o) EXCEPT
                                !.op = "gradientStep",
                                !.answer = [NoAnswer EXCEPT !.o = o, !.evaluated = evaluated,
                                                            !.radii = radii],
                                !.probe = [at |-> "gradientStep", evaluated |-> evaluated,
                                           decrease |-> decrease, radii |-> radii]]
  /\ UNCHANGED <<inputs, pointSet, bundle, aggregated, newData,
                 switched_to_full>>

\* "Loop through point set" and the QP data set after it.
LoopThroughPointSet ==
  /\ pc = "pointSetLoop"
  /\ \E ok \in [1 .. Len(pointSet) -> BOOLEAN] :
       /\ QP_gradient_list' = QP_gradient_list \o PointSetGradients(1, ok)
       /\ QP_vector' = QP_vector \o PointSetValues(1, ok)
       /\ log' = [Told([NoAnswer EXCEPT !.ok = ok]) EXCEPT
                    !.op = "pointSetLoop", !.probe = NoProbe]
  /\ qp' = SetData(qp, QP_gradient_list', QP_vector')
  /\ pc' = "initialSolve"
  /\ UNCHANGED <<status_, raised, inputs, trialIterate, direction, pointSet,
                 counters, totals, aggregated, newData, switched_to_full,
                 evaluation_success, summaryLines>>

\* The solve on the expanded bundle and the check for termination on QP failure.
InitialSolve ==
  /\ pc = "initialSolve"
  /\ \E o \in QPOutcomes :
       LET step == convertQPSolutionToStep(Solve(qp, o))
       IN  /\ qp' = Solve(qp, o)
           /\ QPIterationCounter' = step.QPIterationCounter
           /\ innerIterationCounter' = step.innerIterationCounter
           /\ direction' = step.direction
           /\ trialIterate' = step.trialIterate
           /\ IF o.status # "QP_SUCCESS" /\ opt.fail_on_QP_failure_
              THEN /\ Throw("DC_QP_FAILURE_EXCEPTION", totals)
                   /\ log' = [LogSolve("initial", o) EXCEPT !.exit = "initialSolve"]
                   /\ UNCHANGED <<aggregated, switched_to_full>>
              ELSE IF o.status # "QP_SUCCESS"
              THEN /\ Continue("recoverInitial")
                   /\ log' = LogSolve("initial", o)
                   /\ UNCHANGED <<aggregated, switched_to_full>>
              ELSE /\ Continue("innerLoop")
                   /\ switched_to_full' = FALSE
                   /\ QP_gradient_list_aggregated' = QP_gradient_list
                   /\ QP_vector_aggregated' = QP_vector
                   /\ log' = LogSolve("initial", o)
  /\ UNCHANGED <<inputs, pointSet, bundle, newData, evaluation_success>>

\* "Check for QP failure" after the initial solve: the one-cut bundle is
\* solved, and the aggregated quantities are declared.
RecoverInitial ==
  /\ pc = "recoverInitial"
  /\ \E o \in QPOutcomes :
       LET seeded == SetData(qp, <<Gradient(currentIterate)>>, <<Objective(currentIterate)>>)
           step == convertQPSolutionToStep(Solve(seeded, o))
       IN  /\ QP_gradient_list' = <<Gradient(currentIterate)>>
           /\ QP_vector' = <<Objective(currentIterate)>>
           /\ qp' = Solve(seeded, o)
           /\ QPIterationCounter' = step.QPIterationCounter
           /\ innerIterationCounter' = step.innerIterationCounter
           /\ direction' = step.direction
           /\ trialIterate' = step.trialIterate
           /\ log' = LogSolve("recoverInitial", o)
  /\ switched_to_full' = FALSE
  /\ QP_gradient_list_aggregated' = QP_gradient_list'
  /\ QP_vector_aggregated' = QP_vector'
  /\ pc' = "innerLoop"
  /\ UNCHANGED <<status_, raised, inputs, pointSet, totals, newData,
                 evaluation_success, summaryLines>>

\* Weight vectors of length m the solver may report as omega: nonnegative
\* multiples of one half that sum to one.
RECURSIVE SumTo(_, _)
SumTo(w, i) == IF i = 0 THEN 0 ELSE w[i] + SumTo(w, i - 1)

Simplex(m) == {w \in [1 .. m -> {0, Half, One}] : SumTo(w, m) = One}

\* The aggregation loop: sum over i < m of omega[i] * list[i].
RECURSIVE WeightedSum(_, _, _)
WeightedSum(omega, list, m) ==
  IF m = 0 THEN 0 ELSE FAdd(WeightedSum(omega, list, m - 1), FMul(omega[m], list[m]))

\* The inner loop's probe of the trial iterate: flush, evaluation, radius
\* update conditions, sufficient decrease.
InnerProbe ==
  /\ pc = "innerLoop"
  /\ \E evaluated \in BOOLEAN, radii \in BOOLEAN :
       LET decrease == SufficientDecrease(trialIterate, One, qp)
       IN  /\ evaluation_success' = evaluated
           /\ IF Accepted(evaluated, decrease, radii)
              THEN /\ Throw("DC_SUCCESS_EXCEPTION", totals)
                   /\ log' = [Told([NoAnswer EXCEPT !.evaluated = evaluated, !.radii = radii]) EXCEPT
                                !.exit = "innerProbe", !.op = "innerProbe",
                                !.probe = [at |-> "innerProbe", evaluated |-> evaluated,
                                           decrease |-> decrease, radii |-> radii]]
              ELSE /\ Continue("iterationLimit")
                   /\ log' = [Told([NoAnswer EXCEPT !.evaluated = evaluated, !.radii = radii]) EXCEPT
                                !.op = "innerProbe",
                                !.probe = [at |-> "innerProbe", evaluated |-> evaluated,
                                           decrease |-> decrease, radii |-> radii]]
  /\ UNCHANGED <<inputs, trialIterate, direction, pointSet, counters, qp,
                 bundle, aggregated, newData, switched_to_full>>

\* Faulty variant: the limit check lets one more pass through.
LimitExceeded_lenient == innerIterationCounter > opt.inner_iteration_limit_ + 1

\* Faulty variant: the limit check never finds the limit exceeded.
LimitExceeded_never == FALSE

\* Faulty variant: the limit check is off by one.
LimitExceeded_atLimit == innerIterationCounter >= opt.inner_iteration_limit_

\* Faulty variant: the limit is read before it has been set, so that the
\* comparison can go either way.
IterationLimitCheck_unsetLimit ==
  /\ pc = "iterationLimit"
  /\ \E exceeded \in BOOLEAN :
       IF exceeded
       THEN /\ status_' = "DC_ITERATION_LIMIT"
            /\ pc' = "returned"
            /\ log' = [log EXCEPT !.answer = NoAnswer, !.clock = "none",
                                  !.exit = "iterationLimit", !.op = "iterationLimit"]
       ELSE /\ pc' = "cpuTimeLimit"
            /\ log' = [log EXCEPT !.answer = NoAnswer, !.clock = "none",
                                  !.op = "iterationLimit", !.probe = NoProbe]
            /\ UNCHANGED status_
  /\ UNCHANGED <<raised, totals, summaryLines, opt, evaluateFunctionWithGradient,
                 currentIterate, stationarityRadius, trialIterate, direction, pointSet,
                 innerIterationCounter, QPIterationCounter, qp, QP_gradient_list,
                 QP_vector, QP_gradient_list_aggregated, QP_vector_aggregated,
                 QP_gradient_list_new, QP_vector_new, switched_to_full,
                 evaluation_success>>

\* The comparison of the inner iteration limit check.
LimitExceeded == innerIterationCounter > opt.inner_iteration_limit_

\* The exception the inner iteration limit check throws.
LimitException ==
  IF opt.fail_on_iteration_limit_
  THEN "DC_ITERATION_LIMIT_EXCEPTION" ELSE "DC_SUCCESS_EXCEPTION"

\* "Check for inner iteration limit"
IterationLimitCheck ==
  /\ pc = "iterationLimit"
  /\ IF LimitExceeded
     THEN /\ Throw(LimitException, totals)
          /\ log' = [Told(NoAnswer) EXCEPT !.exit = "iterationLimit", !.op = "iterationLimit"]
     ELSE /\ Continue("cpuTimeLimit")
          /\ log' = [Told(NoAnswer) EXCEPT !.op = "iterationLimit", !.probe = NoProbe]
  /\ UNCHANGED <<inputs, trialIterate, direction, pointSet, counters, qp,
                 bundle, aggregated, newData, switched_to_full,
                 evaluation_success>>

\* "Check for CPU time limit": the clock is the environment's.
CPUTimeLimitCheck ==
  /\ pc = "cpuTimeLimit"
  /\ \E exceeded \in BOOLEAN :
       IF exceeded
       THEN /\ Throw("DC_CPU_TIME_LIMIT_EXCEPTION", [totals EXCEPT !.time = @ + 1])
            /\ log' = [Told(NoAnswer) EXCEPT !.exit = "cpuTimeLimit", !.op = "cpuTimeLimit",
                                             !.clock = "exceeded"]
       ELSE /\ Continue("aggregate")
            /\ log' = [Told(NoAnswer) EXCEPT !.op = "cpuTimeLimit", !.clock = "within"]
  /\ UNCHANGED <<inputs, trialIterate, direction, pointSet, counters, qp, bundle,
                 aggregated, newData, switched_to_full, evaluation_success>>

\* Whether the pass works on the aggregated bundle.
Aggregating == opt.try_aggregation_ /\ ~switched_to_full

\* "Set aggregated data".  Reading QP_gradient_list_aggregated beyond its
\* end is undefined: the values read are then any at all.
SetAggregatedData ==
  /\ pc = "aggregate"
  /\ IF Aggregating
     THEN LET m == dualSolutionOmegaLength(qp)
              inRange == m <= Len(QP_gradient_list_aggregated)
          IN  /\ \E omega \in Simplex(m) :
                   \E pair \in IF inRange
                               THEN {<<WeightedSum(omega, QP_gradient_list_aggregated, m),
                                       WeightedSum(omega, QP_vector_aggregated, m)>>}
                               ELSE {<<0, 0>>, <<NaN, NaN>>} :
                     /\ QP_gradient_list_aggregated' = <<Gradient(currentIterate), pair[1]>>
                     /\ QP_vector_aggregated' = <<Objective(currentIterate), pair[2]>>
                     /\ log' = [Told([NoAnswer EXCEPT !.omega = omega]) EXCEPT
                                  !.op = IF inRange THEN "aggregate" ELSE "outOfRange"]
     ELSE /\ log' = [Told(NoAnswer) EXCEPT !.op = "noAggregate"]
          /\ UNCHANGED aggregated
  /\ pc' = "addTrial"
  /\ UNCHANGED <<status_, raised, inputs, trialIterate, direction, pointSet,
                 counters, totals, qp, bundle, newData, switched_to_full,
                 evaluation_success, summaryLines>>

\* Faulty variant: far points are added whatever add_far_points says.
FarPointGate_always == TRUE

\* The gate of the addition of the full-step trial iterate.
FarPointGate ==
  opt.add_far_points_ \/ FLeq(primalSolutionNormInf(qp), stationarityRadius)

\* "Declare new QP data" and "Check if adding far points".
AddTrialPoint ==
  /\ pc = "addTrial"
  /\ IF FarPointGate /\ evaluation_success
     THEN \E okGradient \in GradientEvaluations :
            /\ evaluation_success' = okGradient
            /\ IF okGradient
               THEN /\ pointSet' = push_back(pointSet, trialIterate)
                    /\ QP_gradient_list_new' = <<Gradient(trialIterate)>>
                    /\ QP_vector_new' = <<CutValue(trialIterate)>>
                    /\ IF Aggregating
                       THEN /\ QP_gradient_list' = Append(QP_gradient_list, Gradient(trialIterate))
                            /\ QP_vector' = Append(QP_vector, CutValue(trialIterate))
                            /\ QP_gradient_list_aggregated' =
                                 Append(QP_gradient_list_aggregated, Gradient(trialIterate))
                            /\ QP_vector_aggregated' =
                                 Append(QP_vector_aggregated, CutValue(trialIterate))
                       ELSE UNCHANGED <<bundle, aggregated>>
                    /\ log' = [Told([NoAnswer EXCEPT !.okGradient = TRUE]) EXCEPT !.op = "addTrial"]
               ELSE /\ QP_gradient_list_new' = << >>
                    /\ QP_vector_new' = << >>
                    /\ log' = [Told(NoAnswer) EXCEPT !.op = "skipTrial"]
                    /\ UNCHANGED <<pointSet, bundle, aggregated>>
     ELSE /\ QP_gradient_list_new' = << >>
          /\ QP_vector_new' = << >>
          /\ log' = [Told(NoAnswer) EXCEPT !.op = "skipTrial"]
          /\ UNCHANGED <<pointSet, bundle, aggregated, evaluation_success>>
  /\ pc' = "shortenedStep"
  /\ UNCHANGED <<status_, raised, inputs, trialIterate, direction, counters,
                 totals, qp, switched_to_full, summaryLines>>

\* Faulty variant: the stepsize is not scaled by the length of the step.
ShortenedStepsize_noRatio(q) == shortened_stepsize_

\* "Set shortened stepsize"
ShortenedStepsize(q) ==
  FDiv(FMul(shortened_stepsize_, Fmin(stationarityRadius, primalSolutionNormInf(q))),
       primalSolutionNormInf(q))

\* "Try shortened step?"
ShortenedStep ==
  /\ pc = "shortenedStep"
  /\ IF ~opt.try_shortened_step_
     THEN /\ Continue("resolve")
          /\ log' = [Told(NoAnswer) EXCEPT !.op = "noShortenedStep"]
          /\ UNCHANGED <<trialIterate, pointSet, bundle, aggregated,
                         newData, evaluation_success>>
     ELSE \E evaluated \in BOOLEAN, radii \in BOOLEAN, okGradient \in GradientEvaluations :
            LET shortened_stepsize == ShortenedStepsize(qp)
                trial == MakeNewLinearCombination(currentIterate, One,
                                                  shortened_stepsize, direction)
                decrease == SufficientDecrease(trial, shortened_stepsize, qp)
                probe == [at |-> "shortenedStep", evaluated |-> evaluated,
                          decrease |-> decrease, radii |-> radii]
            IN  /\ trialIterate' = trial
                /\ IF Accepted(evaluated, decrease, radii)
                   THEN /\ Throw("DC_SUCCESS_EXCEPTION", totals)
                        /\ evaluation_success' = evaluated
                        /\ log' = [Told([NoAnswer EXCEPT !.evaluated = evaluated,
                                                              !.radii = radii]) EXCEPT
                                              !.exit = "shortenedStep",
                                              !.op = "shortenedStep", !.probe = probe]
                        /\ UNCHANGED <<pointSet, bundle, aggregated, newData>>
                   ELSE /\ Continue("resolve")
                        /\ evaluation_success' = (evaluated /\ okGradient)
                        /\ log' = [Told([NoAnswer EXCEPT
                                                !.evaluated = evaluated, !.radii = radii,
                                                !.okGradient = evaluated /\ okGradient]) EXCEPT
                                              !.op = "shortenedStep", !.probe = probe]
                        /\ IF evaluated /\ okGradient
                           THEN /\ pointSet' = push_back(pointSet, trial)
                                /\ QP_gradient_list_new' =
                                     Append(QP_gradient_list_new, Gradient(trial))
                                /\ QP_vector_new' = Append(QP_vector_new, CutValue(trial))
                                /\ IF Aggregating
                                   THEN /\ QP_gradient_list' =
                                             Append(QP_gradient_list, Gradient(trial))
                                        /\ QP_vector' = Append(QP_vector, CutValue(trial))
                                        /\ QP_gradient_list_aggregated' =
                                             Append(QP_gradient_list_aggregated, Gradient(trial))
                                        /\ QP_vector_aggregated' =
                                             Append(QP_vector_aggregated, CutValue(trial))
                                   ELSE UNCHANGED <<bundle, aggregated>>
                           ELSE UNCHANGED <<pointSet, bundle, aggregated, newData>>
  /\ UNCHANGED <<inputs, direction, counters, qp, switched_to_full>>

\* Faulty variant: the product is rounded up instead of truncated.
AggregationSizeLimit_roundedUp ==
  (FMul(opt.aggregation_size_threshold_, numberOfVariables * Scale) + Scale - 1) \div Scale

\* The threshold of the switch from the aggregated to the full bundle:
\* (int)(aggregation_size_threshold_ * (double)numberOfVariables).
AggregationSizeLimit ==
  FMul(opt.aggregation_size_threshold_, numberOfVariables * Scale) \div Scale

\* Faulty variant: below the threshold the new data is added to what the
\* solver holds instead of the aggregated bundle being set.
ResolveKind_hotWhileAggregating ==
  IF Aggregating /\ Len(pointSet) >= AggregationSizeLimit THEN "full" ELSE "hot"

\* Which of the three ways "Set QP data and solve" takes.
ResolveKind ==
  IF Aggregating /\ Len(pointSet) < AggregationSizeLimit THEN "aggregated"
  ELSE IF Aggregating THEN "full"
  ELSE "hot"

\* The inner iteration's print, "Set QP data and solve", the conversion to
\* a step and the check for termination on QP failure.
ResolveQP ==
  /\ pc = "resolve"
  /\ \E o \in QPOutcomes :
       LET data == CASE ResolveKind = "aggregated" ->
                          SetData(qp, QP_gradient_list_aggregated, QP_vector_aggregated)
                     [] ResolveKind = "full" -> SetData(qp, QP_gradient_list, QP_vector)
                     [] ResolveKind = "hot" -> AddData(qp, QP_gradient_list_new, QP_vector_new)
           step == convertQPSolutionToStep(Solve(data, o))
       IN  /\ qp' = Solve(data, o)
           /\ switched_to_full' = (switched_to_full \/ ResolveKind = "full")
           /\ QPIterationCounter' = step.QPIterationCounter
           /\ innerIterationCounter' = step.innerIterationCounter
           /\ direction' = step.direction
           /\ trialIterate' = step.trialIterate
           /\ IF o.status # "QP_SUCCESS" /\ opt.fail_on_QP_failure_
              THEN /\ Throw("DC_QP_FAILURE_EXCEPTION", totals)
                   /\ log' = [LogSolve(ResolveKind, o) EXCEPT !.exit = "resolve",
                                                             !.passes = @ + 1]
              ELSE /\ Continue(IF o.status # "QP_SUCCESS" THEN "recoverInner" ELSE "innerLoop")
                   /\ log' = [LogSolve(ResolveKind, o) EXCEPT !.passes = @ + 1]
  /\ QP_gradient_list_new' = << >>
  /\ QP_vector_new' = << >>
  /\ UNCHANGED <<inputs, pointSet, bundle, aggregated, evaluation_success>>

\* "Check for QP failure" in the inner loop: the one-cut bundle is solved
\* and copied to the aggregated values.
RecoverInner ==
  /\ pc = "recoverInner"
  /\ \E o \in QPOutcomes :
       LET seeded == SetData(qp, <<Gradient(currentIterate)>>, <<Objective(currentIterate)>>)
           step == convertQPSolutionToStep(Solve(seeded, o))
       IN  /\ QP_gradient_list' = <<Gradient(currentIterate)>>
           /\ QP_vector' = <<Objective(currentIterate)>>
           /\ qp' = Solve(seeded, o)
           /\ QPIterationCounter' = step.QPIterationCounter
           /\ innerIterationCounter' = step.innerIterationCounter
           /\ direction' = step.direction
           /\ trialIterate' = step.trialIterate
           /\ log' = LogSolve("recoverInner", o)
  /\ QP_gradient_list_aggregated' = QP_gradient_list'
  /\ QP_vector_aggregated' = QP_vector'
  /\ pc' = "innerLoop"
  /\ UNCHANGED <<status_, raised, inputs, pointSet, totals, newData,
                 switched_to_full, evaluation_success, summaryLines>>

Next ==
  \/ InitializeValues
  \/ EvaluateCurrent
  \/ GradientStep
  \/ LoopThroughPointSet
  \/ InitialSolve
  \/ RecoverInitial
  \/ InnerProbe
  \/ IterationLimitCheck
  \/ CPUTimeLimitCheck
  \/ SetAggregatedData
  \/ AddTrialPoint
  \/ ShortenedStep
  \/ ResolveQP
  \/ RecoverInner

Spec == Init /\ [][Next]_vars

\* The call has ended: it returned, or the CPU time limit was thrown on.
Stopped == pc \in {"returned", "raised"}

TypeOK ==
  /\ pc \in {"entry", "evaluateCurrent", "gradientStep", "pointSetLoop", "initialSolve",
             "recoverInitial", "innerLoop", "iterationLimit", "cpuTimeLimit",
             "aggregate", "addTrial", "shortenedStep", "resolve", "recoverInner",
             "returned", "raised"}
  /\ status_ \in DC_Status
  /\ raised \in BOOLEAN
  /\ Len(QP_gradient_list) = Len(QP_vector)
  /\ Len(qp.vectorList) = Len(qp.vector)

(***************************************************************************)
(* Properties.                                                             *)
(***************************************************************************)
FinalStatuses ==
  {"DC_SUCCESS", "DC_EVALUATION_FAILURE", "DC_ITERATION_LIMIT", "DC_QP_FAILURE",
   "DC_CPU_TIME_LIMIT"}

\* C1: whenever computeDirection has stopped (returned, or thrown the CPU time
\* limit on), its status is one of SUCCESS, EVALUATION_FAILURE,
\* ITERATION_LIMIT, QP_FAILURE, CPU_TIME_LIMIT, and never UNSET.
C1_StatusSetWhenStopped == Stopped => status_ \in FinalStatuses

C1_Witness == pc = "returned" /\ status_ = "DC_ITERATION_LIMIT"

\* C2, as claimed: on every exit, CPU_TIME_LIMIT included, the iteration line
\* has been printed once and the total inner and QP iteration counters have
\* each been incremented once.
C2_EpilogueOnEveryExit ==
  Stopped => summaryLines = 1 /\ totals.inner = 1 /\ totals.qp = 1

\* C2, amended: on every exit but CPU_TIME_LIMIT the iteration line has been
\* printed once and the two total counters incremented once each; on
\* CPU_TIME_LIMIT none of the three has happened; before the call stops none
\* of the three has happened.
C2_EpilogueUnlessCPUTimeLimit ==
  IF Stopped /\ status_ # "DC_CPU_TIME_LIMIT"
  THEN summaryLines = 1 /\ totals.inner = 1 /\ totals.qp = 1
  ELSE summaryLines = 0 /\ totals.inner = 0 /\ totals.qp = 0

C2_Witness ==
  pc = "returned" /\ status_ = "DC_QP_FAILURE" /\ summaryLines = 1 /\ totals.qp = 1

\* C3, as claimed: with fail_on_QP_failure, a call in which any QP solve (that
\* of the gradient step included) reported a non-success ends with QP_FAILURE.
C3_AnyQPFailureEndsInQPFailure ==
  (Stopped /\ opt.fail_on_QP_failure_ /\ log.failed # {}) => status_ = "DC_QP_FAILURE"

\* C4: without fail_on_QP_failure, a non-success of the initial solve or of an
\* inner loop solve is followed at once by the recovery, after which the
\* bundle is the seed cut alone, the solver holds exactly that bundle and has
\* solved it, direction is that solve's primal solution, the trial iterate is
\* the current iterate plus direction, and, in the inner loop, the aggregated
\* bundle equals the bundle.
C4_RecoveryAfterQPFailure ==
  /\ (/\ log.op \in {"initial", "aggregated", "full", "hot"}
      /\ qp.status # "QP_SUCCESS"
      /\ ~opt.fail_on_QP_failure_)
       => pc \in {"recoverInitial", "recoverInner"}
  /\ pc = "recoverInitial" => log.op = "initial" /\ qp.status # "QP_SUCCESS"
  /\ pc = "recoverInner"
       => log.op \in {"aggregated", "full", "hot"} /\ qp.status # "QP_SUCCESS"
  /\ log.op \in {"recoverInitial", "recoverInner"}
       => /\ QP_gradient_list = <<Gradient(currentIterate)>>
          /\ QP_vector = <<Objective(currentIterate)>>
          /\ qp.vectorList = QP_gradient_list
          /\ qp.vector = QP_vector
          /\ direction = qp.primalSolution
          /\ trialIterate = FAdd(currentIterate, direction)
          /\ (log.op = "recoverInner" =>
                /\ QP_gradient_list_aggregated = QP_gradient_list
                /\ QP_vector_aggregated = QP_vector)

C4_Witness ==
  /\ log.op = "recoverInner"
  /\ qp.status = "QP_SUCCESS"
  /\ direction = 0 - One
  /\ Len(pointSet) > 0

\* C5, as claimed: a call that ends with SUCCESS ended at a probe whose
\* sufficient decrease test passed or at which termination reported that the
\* radii should be updated.
C5_SuccessOnlyByAcceptance ==
  (Stopped /\ status_ = "DC_SUCCESS")
    => /\ log.exit \in Probes
       /\ (log.probe.evaluated /\ log.probe.decrease) \/ log.probe.radii

\* C5, amended: a call that ends with SUCCESS ended at a probe whose
\* sufficient decrease test passed or at which termination reported that the
\* radii should be updated, or at the iteration limit check with the inner
\* iteration counter above the limit and fail_on_iteration_limit unset.
C5_SuccessByAcceptanceOrLimit ==
  (Stopped /\ status_ = "DC_SUCCESS")
    => \/ /\ log.exit \in Probes
          /\ log.probe.at = log.exit
          /\ (log.probe.evaluated /\ log.probe.decrease) \/ log.probe.radii
       \/ /\ log.exit = "iterationLimit"
          /\ ~opt.fail_on_iteration_limit_
          /\ innerIterationCounter > opt.inner_iteration_limit_

C5_Witness ==
  /\ pc = "returned"
  /\ status_ = "DC_SUCCESS"
  /\ log.exit = "iterationLimit"
  /\ ~log.probe.radii

\* C6, as claimed: at each of the three probes, when termination reports that
\* the radii should be updated the call ends there with SUCCESS, whether the
\* evaluation of the trial objective succeeded or failed.
C6_RadiiUpdateAlwaysSucceeds ==
  (log.op \in Probes /\ log.probe.radii)
    => pc = "returned" /\ status_ = "DC_SUCCESS" /\ log.exit = log.op

\* C6, amended: at each of the three probes, when termination reports that
\* the radii should be updated and the evaluation of the trial objective
\* succeeded, the call ends there with SUCCESS; when that evaluation failed
\* the call does not end at the probe, whatever termination reports.
C6_RadiiUpdateSucceedsIfEvaluated ==
  log.op \in Probes
    => /\ log.probe.at = log.op
       /\ (log.probe.radii /\ log.probe.evaluated)
            => pc = "returned" /\ status_ = "DC_SUCCESS" /\ log.exit = log.op
       /\ ~log.probe.evaluated => ~Stopped /\ status_ = "DC_UNSET"

C6_Witness ==
  /\ log.op = "shortenedStep"
  /\ log.probe.radii
  /\ log.probe.evaluated
  /\ ~log.probe.decrease
  /\ status_ = "DC_SUCCESS"

\* C7: the call throws the solver-wide CPU time limit on exactly when its
\* status is CPU_TIME_LIMIT; with every other status it returns.
C7_CPUTimeLimitRethrown ==
  /\ raised <=> pc = "raised"
  /\ Stopped => (raised <=> status_ = "DC_CPU_TIME_LIMIT")
  /\ ~Stopped => status_ # "DC_CPU_TIME_LIMIT"

C7_Witness == pc = "raised" /\ raised /\ status_ = "DC_CPU_TIME_LIMIT"

\* C8: the call ends with EVALUATION_FAILURE exactly when the evaluation of
\* the objective or of the gradient at the current iterate fails; then no QP
\* scalar and no QP data has been set, no QP has been solved, both iteration
\* counters are 0 and the trial iterate is the current iterate.  A failed
\* evaluation anywhere else does not give EVALUATION_FAILURE.
C8_EvaluationFailureOnlyAtCurrentIterate ==
  /\ (log.op = "evaluateCurrent" /\ ~evaluation_success)
       => pc = "returned" /\ status_ = "DC_EVALUATION_FAILURE"
  /\ status_ = "DC_EVALUATION_FAILURE"
       => /\ log.op = "evaluateCurrent"
          /\ log.exit = "evaluateCurrent"
          /\ ~evaluation_success
          /\ ~qp.scalarSet
          /\ ~qp.dataSet
          /\ log.solves = 0
          /\ innerIterationCounter = 0
          /\ QPIterationCounter = 0
          /\ trialIterate = currentIterate

C8_Witness ==
  /\ pc = "returned"
  /\ status_ = "DC_EVALUATION_FAILURE"
  /\ Len(pointSet) > 0
  /\ log.entryDirection # 0

\* C9, as claimed: direction is zero once the call has initialized its
\* values, and so is zero when the call ends with EVALUATION_FAILURE.
C9_DirectionResetOnEntry ==
  (pc = "evaluateCurrent" \/ status_ = "DC_EVALUATION_FAILURE") => direction = 0

\* C9, amended: on entry the primal solution of the QP solver is set to zero
\* and direction is left alone: until the first QP solve of the call, and so
\* when the call ends with EVALUATION_FAILURE, direction is what it was on
\* entry and the solver's primal solution is zero.
C9_DirectionKeptUntilFirstSolve ==
  /\ log.solves = 0 => direction = log.entryDirection
  /\ (log.solves = 0 /\ pc # "entry") => qp.primalSolution = 0
  /\ status_ = "DC_EVALUATION_FAILURE" => log.solves = 0

C9_Witness ==
  /\ pc = "returned"
  /\ status_ = "DC_EVALUATION_FAILURE"
  /\ direction # 0
  /\ qp.primalSolution = 0

\* C10: the iteration limit check ends the call exactly when the inner
\* iteration counter is above inner_iteration_limit, with ITERATION_LIMIT
\* under fail_on_iteration_limit and with SUCCESS otherwise; with the counter
\* at or below the limit the call goes on to the CPU time limit check.
C10_IterationLimitCheck ==
  log.op = "iterationLimit"
    => IF innerIterationCounter > opt.inner_iteration_limit_
       THEN /\ pc = "returned"
            /\ log.exit = "iterationLimit"
            /\ status_ = IF opt.fail_on_iteration_limit_
                         THEN "DC_ITERATION_LIMIT" ELSE "DC_SUCCESS"
       ELSE pc = "cpuTimeLimit" /\ status_ = "DC_UNSET"

C10_Witness ==
  /\ log.op = "iterationLimit"
  /\ status_ = "DC_ITERATION_LIMIT"
  /\ innerIterationCounter = opt.inner_iteration_limit_ + 1
  /\ opt.inner_iteration_limit_ > 0

\* The steps of the inner loop after its limit check, as positions and as
\* steps taken.
AfterLimitCheck ==
  {"cpuTimeLimit", "aggregate", "addTrial", "shortenedStep", "resolve", "recoverInner"}

InnerLoopWork ==
  {"cpuTimeLimit", "aggregate", "outOfRange", "noAggregate", "addTrial", "skipTrial",
   "shortenedStep", "noShortenedStep", "aggregated", "full", "hot", "recoverInner"}

\* C11: with inner_iteration_limit = 0 the inner loop is entered with the
\* inner counter at 1 or more, its first limit check ends the call, with
\* ITERATION_LIMIT under fail_on_iteration_limit, and no step after the limit
\* check (aggregation, bundle addition, shortened step, re-solve, recovery) is
\* ever taken; the point set stays as it was on entry.
C11_LimitZeroExitsAtFirstCheck ==
  /\ pc \in {"innerLoop", "iterationLimit"} => innerIterationCounter >= 1
  /\ opt.inner_iteration_limit_ = 0
       => /\ pc \notin AfterLimitCheck
          /\ log.op \notin InnerLoopWork
          /\ pointSet \in InitialPointSets
          /\ log.op = "iterationLimit"
               => /\ pc = "returned"
                  /\ opt.fail_on_iteration_limit_ => status_ = "DC_ITERATION_LIMIT"

C11_Witness ==
  /\ opt.inner_iteration_limit_ = 0
  /\ log.op = "iterationLimit"
  /\ status_ = "DC_ITERATION_LIMIT"
  /\ innerIterationCounter = 1

\* The step taken last was a QP solve.
SolveKinds ==
  {"gradient", "gradientStep", "initial", "recoverInitial", "aggregated", "full", "hot",
   "recoverInner"}

\* C12: whenever the QP solver holds data, and so at every QP solve, its
\* gradient list and its linear term vector have the same length, at least
\* one, and their first elements are the gradient and the objective value of
\* the current iterate.
C12_SolverDataStartsWithSeed ==
  /\ qp.dataSet
       => /\ Len(qp.vectorList) = Len(qp.vector)
          /\ Len(qp.vectorList) >= 1
          /\ qp.vectorList[1] = Gradient(currentIterate)
          /\ qp.vector[1] = Objective(currentIterate)
  /\ log.solves > 0 => qp.dataSet

C12_Witness ==
  /\ log.op = "hot"
  /\ Len(qp.vectorList) >= 3
  /\ qp.vectorList[1] = Gradient(currentIterate)

\* C13, as claimed: every linear term the QP solver holds is at most the
\* objective value of the current iterate.
C13_LinearTermsBelowObjective ==
  \A i \in 1 .. Len(qp.vector) : FLeq(qp.vector[i], Objective(currentIterate))

\* C14, as claimed: a shortened stepsize is never computed with a primal
\* solution of infinity norm zero.
C14_NoShortenedStepsizeFromZero ==
  log.op = "shortenedStep" => primalSolutionNormInf(qp) # 0

\* The stepsize of the trial iterate a SUCCESS exit leaves, by the step that
\* ended the call.
ExitStepsize ==
  CASE log.exit = "gradientStep" -> gradient_stepsize_
    [] log.exit \in {"innerProbe", "iterationLimit"} -> One
    [] log.exit = "shortenedStep" ->
         FDiv(FMul(shortened_stepsize_,
                   Fmin(stationarityRadius, NormInf(qp.primalSolution))),
              NormInf(qp.primalSolution))

\* C15: on every SUCCESS exit at least one QP has been solved, direction is
\* the primal solution of the last solve, and the trial iterate is the current
\* iterate plus alpha times direction, alpha being gradient_stepsize after the
\* gradient step, 1 after the inner loop's probe or its iteration limit check,
\* and shortened_stepsize * min(radius, ||d||_inf) / ||d||_inf after the
\* shortened step.
C15_SuccessLeavesStep ==
  (Stopped /\ status_ = "DC_SUCCESS")
    => /\ log.solves > 0
       /\ log.exit \in Probes \cup {"iterationLimit"}
       /\ direction = qp.primalSolution
       /\ trialIterate = FAdd(currentIterate, FMul(ExitStepsize, direction))

C15_Witness ==
  /\ pc = "returned"
  /\ status_ = "DC_SUCCESS"
  /\ log.exit = "shortenedStep"
  /\ direction = 0 - (2 * One)
  /\ trialIterate = Half

\* C16: every step that solves a QP, and so calls convertQPSolutionToStep,
\* leaves direction equal to the solver's primal solution, adds 1 to the inner
\* iteration counter and the solver's number of iterations to the QP iteration
\* counter, leaves the trial iterate at the current iterate plus direction
\* (the gradient step then moves it to the current iterate plus
\* gradient_stepsize times direction), and leaves the current iterate, the
\* point set and the stationarity radius as they were.
C16_ConvertQPSolutionToStep ==
  [][log'.solves # log.solves
       => /\ log'.solves = log.solves + 1
          /\ direction' = qp'.primalSolution
          /\ trialIterate' =
               FAdd(currentIterate,
                    FMul(IF pc = "gradientStep" THEN gradient_stepsize_ ELSE One,
                         direction'))
          /\ innerIterationCounter' = innerIterationCounter + 1
          /\ QPIterationCounter' = QPIterationCounter + qp'.numberOfIterations
          /\ UNCHANGED <<currentIterate, pointSet, stationarityRadius>>]_vars

C16_Witness ==
  /\ log.op = "hot"
  /\ log.solves = 2
  /\ innerIterationCounter = 2
  /\ QPIterationCounter = 2 * NumberOfQPIterations
  /\ direction = 0 - One
  /\ trialIterate = 0

IsPrefix(s, t) == Len(s) <= Len(t) /\ SubSeq(t, 1, Len(s)) = s

\* C17: every step leaves the entries of the point set in place and appends at
\* most one; the only steps that append are the inner loop's addition of the
\* full-step trial iterate and its shortened step, each taken at most once per
\* pass.
C17_PointSetAppendOnly ==
  [][/\ IsPrefix(pointSet, pointSet')
     /\ Len(pointSet') <= Len(pointSet) + 1
     /\ pointSet' # pointSet =>
          /\ pc \in {"addTrial", "shortenedStep"}
          /\ pointSet' = Append(pointSet, trialIterate')
          /\ log'.op \in {"addTrial", "shortenedStep"}]_vars

C17_Witness ==
  /\ log.op = "shortenedStep"
  /\ Len(pointSet) = 5
  /\ SubSeq(pointSet, 1, 3) \in InitialPointSets

\* C19: a gradient step whose trial objective was evaluated and passed the
\* sufficient decrease test ends the call with SUCCESS after one QP solve, on
\* the one-cut bundle: the inner iteration counter is 1, the bundle has not
\* been expanded and the point set is as on entry.  Without try_gradient_step
\* the initial solve is the first solve of the call.
C19_GradientStepAccepted ==
  /\ (log.op = "gradientStep" /\ log.probe.evaluated /\ log.probe.decrease)
       => /\ pc = "returned"
          /\ status_ = "DC_SUCCESS"
          /\ log.exit = "gradientStep"
          /\ log.solves = 1
          /\ innerIterationCounter = 1
          /\ qp.vectorList = <<Gradient(currentIterate)>>
          /\ qp.vector = <<Objective(currentIterate)>>
          /\ QP_gradient_list = <<Gradient(currentIterate)>>
          /\ QP_vector = <<Objective(currentIterate)>>
          /\ pointSet \in InitialPointSets
  /\ log.op \in {"gradient", "gradientStep"} => opt.try_gradient_step_ /\ log.solves = 1
  /\ pc = "initialSolve" => log.solves = IF opt.try_gradient_step_ THEN 1 ELSE 0

C19_Witness ==
  /\ log.op = "gradientStep"
  /\ log.probe.evaluated
  /\ log.probe.decrease
  /\ ~log.probe.radii
  /\ status_ = "DC_SUCCESS"
  /\ Len(pointSet) > 0

\* Calls with aggregation, far points and the shortened step switched on, an
\* inner iteration limit of one, recovery from QP failures, an oracle that
\* delivers objective and gradient apart, and a point set from earlier
\* iterations.
ReplayOptions ==
  {o \in OptionValues :
     /\ o.add_far_points_ /\ o.try_aggregation_ /\ o.try_shortened_step_
     /\ o.fail_on_iteration_limit_ /\ ~o.fail_on_QP_failure_
     /\ o.inner_iteration_limit_ = 1}

InitReplay ==
  /\ Init
  /\ opt \in ReplayOptions
  /\ ~evaluateFunctionWithGradient
  /\ pointSet # << >>
  /\ status_ = "DC_UNSET"

SpecReplay == InitReplay /\ [][Next]_vars

\* Calls that may go through MaxPasses complete passes of the inner loop, with
\* far points, the shortened step and recovery from QP failures, a joint
\* oracle, and an aggregation threshold of one and a half or of four and a
\* half times the number of variables.
PassesOptions ==
  [add_far_points_ : {TRUE},
   fail_on_iteration_limit_ : {TRUE},
   fail_on_QP_failure_ : {FALSE},
   try_aggregation_ : BOOLEAN,
   try_gradient_step_ : BOOLEAN,
   try_shortened_step_ : {TRUE},
   aggregation_size_threshold_ : {One + Half, (4 * One) + Half},
   inner_iteration_limit_ : {MaxPasses}]

InitPasses ==
  /\ InitOf(PassesOptions)
  /\ evaluateFunctionWithGradient
  /\ status_ = "DC_UNSET"

SpecPasses == InitPasses /\ [][Next]_vars

\* The options of the runs that are followed to their end: no aggregation,
\* so that a pass is the probe, the two checks, the additions and a hot solve.
EndsOptions ==
  [add_far_points_ : {TRUE},
   fail_on_iteration_limit_ : BOOLEAN,
   fail_on_QP_failure_ : BOOLEAN,
   try_aggregation_ : {FALSE},
   try_gradient_step_ : BOOLEAN,
   try_shortened_step_ : {TRUE},
   aggregation_size_threshold_ : {One + Half},
   inner_iteration_limit_ : {MaxPasses}]

\* A call with these options, from an empty point set.
InitEnds ==
  /\ InitOf(EndsOptions)
  /\ evaluateFunctionWithGradient
  /\ status_ = "DC_UNSET"
  /\ pointSet = << >>

\* The call is one thread of control: a step that can be taken is taken.
FairSpecEnds == InitEnds /\ [][Next]_vars /\ WF_vars(Next)

InsideRadius(i) ==
  LET distance == IF currentIterate >= pointSet[i]
                  THEN currentIterate - pointSet[i] ELSE pointSet[i] - currentIterate
  IN  distance <= stationarityRadius

\* The indices from i on of the points that are inside the radius and that
\* the oracle evaluated, in the order of the point set.
RECURSIVE Contributing(_)
Contributing(i) ==
  IF i > Len(pointSet) THEN << >>
  ELSE (IF InsideRadius(i) /\ log.answer.ok[i] THEN <<i>> ELSE << >>)
         \o Contributing(i + 1)

\* C20: after the loop through the point set the call goes on to the initial
\* solve with a bundle, handed to the solver, that is the seed cut followed by
\* one cut, gradient and linear term, for each point of the point set that is
\* within the stationarity radius of the current iterate in infinity norm and
\* whose evaluations succeeded, in the order of the point set; the other
\* points give no cut; the point set is left as it was.
C20_InitialBundleExpansion ==
  log.op = "pointSetLoop"
    => LET kept == Contributing(1)
       IN  /\ pc = "initialSolve"
           /\ status_ = "DC_UNSET"
           /\ pointSet \in InitialPointSets
           /\ Len(QP_gradient_list) = 1 + Len(kept)
           /\ Len(QP_vector) = 1 + Len(kept)
           /\ QP_gradient_list[1] = Gradient(currentIterate)
           /\ QP_vector[1] = Objective(currentIterate)
           /\ \A k \in 1 .. Len(kept) :
                /\ QP_gradient_list[1 + k] = Gradient(pointSet[kept[k]])
                /\ QP_vector[1 + k] = CutValue(pointSet[kept[k]])
           /\ qp.vectorList = QP_gradient_list
           /\ qp.vector = QP_vector

C20_Witness ==
  /\ log.op = "pointSetLoop"
  /\ Len(pointSet) = 3
  /\ log.answer.ok = <<TRUE, TRUE, TRUE>>
  /\ QP_vector = <<One, One - Quarter, One>>

\* C21: the inner loop's addition step appends the full-step trial iterate to
\* the point set, and one cut for it to the new QP data, exactly when
\* add_far_points is set or the primal solution's infinity norm is at most the
\* stationarity radius, the trial objective was evaluated and the trial
\* gradient is evaluated; otherwise point set and bundles stay as they are and
\* the new QP data is empty.  While aggregating the cut is also appended to
\* the bundle and to the aggregated bundle.
C21_FarPointAddition ==
  [][pc = "addTrial"
       => LET gate == \/ opt.add_far_points_
                      \/ NormInf(qp.primalSolution) <= stationarityRadius
              added == gate /\ evaluation_success /\ log'.answer.okGradient
              G == <<Gradient(trialIterate)>>
              b == <<CutValue(trialIterate)>>
          IN  IF added
              THEN /\ pointSet' = Append(pointSet, trialIterate)
                   /\ QP_gradient_list_new' = G
                   /\ QP_vector_new' = b
                   /\ IF opt.try_aggregation_ /\ ~switched_to_full
                      THEN /\ QP_gradient_list' = QP_gradient_list \o G
                           /\ QP_vector' = QP_vector \o b
                           /\ QP_gradient_list_aggregated' = QP_gradient_list_aggregated \o G
                           /\ QP_vector_aggregated' = QP_vector_aggregated \o b
                      ELSE UNCHANGED <<bundle, aggregated>>
              ELSE /\ UNCHANGED <<pointSet, bundle, aggregated>>
                   /\ QP_gradient_list_new' = << >>
                   /\ QP_vector_new' = << >>]_vars

C21_Witness ==
  /\ log.op = "skipTrial"
  /\ ~opt.add_far_points_
  /\ NormInf(qp.primalSolution) > stationarityRadius
  /\ evaluation_success
  /\ QP_gradient_list_new = << >>

\* C22, as claimed: a re-solve while aggregating is on the aggregated bundle
\* when the size of the point set is below the real product of
\* aggregation_size_threshold and the number of variables, and on the full
\* bundle, with the switch to full, otherwise.
C22_SwitchAtRealProduct ==
  (log.op \in {"aggregated", "full"})
    => (log.op = "aggregated"
          <=> Len(pointSet) * Scale < opt.aggregation_size_threshold_ * numberOfVariables)

\* C22, amended: a re-solve while aggregating (try_aggregation, not yet
\* switched to full) is on the aggregated bundle when the size of the point
\* set is below the product of aggregation_size_threshold and the number of
\* variables truncated to an integer, and on the full bundle, setting
\* switched_to_full, otherwise; every other re-solve adds exactly the new QP
\* data to what the solver holds and is a hot solve; switched_to_full is never
\* reset in the inner loop.
C22_ResolveSelection ==
  [][/\ pc = "resolve"
       => LET truncated == (opt.aggregation_size_threshold_ * numberOfVariables) \div Scale
          IN  IF opt.try_aggregation_ /\ ~switched_to_full /\ Len(pointSet) < truncated
              THEN /\ log'.op = "aggregated"
                   /\ qp'.vectorList = QP_gradient_list_aggregated
                   /\ qp'.vector = QP_vector_aggregated
                   /\ ~switched_to_full'
              ELSE IF opt.try_aggregation_ /\ ~switched_to_full
              THEN /\ log'.op = "full"
                   /\ qp'.vectorList = QP_gradient_list
                   /\ qp'.vector = QP_vector
                   /\ switched_to_full'
              ELSE /\ log'.op = "hot"
                   /\ qp'.vectorList = qp.vectorList \o QP_gradient_list_new
                   /\ qp'.vector = qp.vector \o QP_vector_new
                   /\ switched_to_full' = switched_to_full
     /\ switched_to_full => switched_to_full']_vars

C22_Witness ==
  /\ log.op = "hot"
  /\ log.passes = 2
  /\ opt.try_aggregation_
  /\ switched_to_full
  /\ Len(qp.vectorList) >= 3

C24_CallEnds ==
  /\ [](log.passes <= opt.inner_iteration_limit_)
  /\ [](log.passes > 0 => log.passes + 1 <= innerIterationCounter)
  /\ [](pc = "resolve" => innerIterationCounter <= opt.inner_iteration_limit_)
  /\ <>Stopped

C24_Witness ==
  /\ Stopped
  /\ log.passes = MaxPasses
  /\ log.passes = opt.inner_iteration_limit_
  /\ log.exit = "iterationLimit"

\* C25: while aggregating (try_aggregation, not switched to full), at every
\* refresh of the aggregated data the solver holds exactly the aggregated
\* bundle, so there are as many dual weights as aggregated cuts and no
\* refresh reads past the end of the aggregated bundle.
C25_SolverHoldsAggregatedBundle ==
  /\ (pc = "aggregate" /\ Aggregating)
       => /\ qp.vectorList = QP_gradient_list_aggregated
          /\ qp.vector = QP_vector_aggregated
          /\ dualSolutionOmegaLength(qp) = Len(QP_gradient_list_aggregated)
          /\ dualSolutionOmegaLength(qp) = Len(QP_vector_aggregated)
  /\ log.op # "outOfRange"

C25_Witness ==
  /\ log.op = "aggregate"
  /\ log.passes = 1
  /\ Len(log.answer.omega) >= 3
  /\ Len(QP_gradient_list_aggregated) = 2

\* C26: the direction computation time is added to exactly once in a call:
\* not before the call ends, and once when it has ended, by the epilogue or,
\* for the CPU time limit, by the CPU time limit check.
C26_TimeIncrementedOnce ==
  /\ Stopped => totals.time = 1
  /\ ~Stopped => totals.time = 0
  /\ pc = "raised" => status_ = "DC_CPU_TIME_LIMIT" /\ summaryLines = 0
  /\ pc = "returned" => status_ # "DC_CPU_TIME_LIMIT" /\ summaryLines = 1

C26_Witness ==
  /\ pc = "raised"
  /\ status_ = "DC_CPU_TIME_LIMIT"
  /\ totals.time = 1
  /\ totals.inner = 0

\* C27: after the reset at the start of the call the inner iteration counter
\* is the number of QP solves of the call so far.
C27_CounterCountsSolves ==
  pc # "entry" => innerIterationCounter = log.solves

C27_Witness ==
  /\ log.op = "recoverInner"
  /\ innerIterationCounter = 3
  /\ log.solves = 3

====
